---- MODULE Spec2Model ----
(***************************************************************************)
(* Model of the Reddit API client (reddit-client.ts): the session held by  *)
(* RedditClient (accessToken, tokenExpiry), authenticate(), makeRequest(), *)
(* the query methods built on it, and the comment-tree flattener           *)
(* extractComments().                                                      *)
(*                                                                         *)
(* Time is Date.now() in milliseconds.  Every await of a network call is a *)
(* suspension point: a query is a process whose position is pc[q], and the *)
(* token endpoint and the API host answer in steps of their own.           *)
(***************************************************************************)
EXTENDS Integers, Sequences, FiniteSets, TLC

\* ---------------------------------------------------------------- bounds
MaxTicks == 2          \* clock advances per behaviour
MaxExchanges == 2      \* successful token exchanges per behaviour
MaxOps == 2            \* query operations started per behaviour
MaxNodes == 4          \* nodes of a comment thread

Queries == {"q1", "q2"}          \* concurrently running query operations
TickSteps == {1000}              \* clock advances, in ms
Lifetimes == {60, 62}            \* expires_in values the endpoint reports, in s

VARIABLES
    config,        \* RedditClient.config (immutable after construction)
    accessToken,   \* RedditClient.accessToken
    tokenExpiry,   \* RedditClient.tokenExpiry (ms)
    now,           \* Date.now()
    ticks,         \* number of clock advances so far
    pc,            \* position of each query operation
    grantSent,     \* grant_type of the token request of the operation
    authResp,      \* answer of the token endpoint, once it arrived
    apiResp,       \* answer of the API host, once it arrived
    tokenReqs,     \* token requests sent by the current operation
    apiReqs,       \* API requests sent by the current operation
    sent,          \* the bearer token of the API request of the operation
    startedAt,     \* Date.now() read by the check of a pending authenticate()
    authDone,      \* authenticate() returned normally in the current operation
    parsed,        \* response.json() was called on the API response
    outcome,       \* what the operation hands to its caller
    issued,        \* tokens handed out by the token endpoint so far
    ops,           \* query operations started so far
    last,          \* the exchange that last wrote the session
    grantLog,      \* grant types sent and rejected since construction
    tListing,      \* comment thread: the response has a comment listing (data[1])
    tKind,         \* comment thread: kind of each node
    tKids,         \* comment thread: children of each node (0 is the listing)
    tCount,        \* comment thread: number of nodes
    comments,      \* result of getPostComments
    tDone,         \* getPostComments has produced its result
    env,           \* process.env at startup
    startup,       \* position of the startup code of index.ts
    loaded,        \* the Config getConfig() returned
    startError,    \* what the try block of the startup code threw
    clientBuilt,   \* new RedditClient(config) has run
    exitCode,      \* argument of process.exit
    request,       \* tool call: request.params (name and arguments)
    hpc,           \* tool call: position of the CallToolRequestSchema handler
    call,          \* tool call: the client method called and the API path it asks for
    reply,         \* tool call: what the handler returns or throws
    rawPost,       \* child.data of a post in an API response
    post,          \* the RedditPost mapPost() made of it
    postMapped     \* mapPost() has run

sessionVars == <<config, accessToken, tokenExpiry, now, ticks, pc, grantSent,
                 authResp, apiResp, tokenReqs, apiReqs, sent, startedAt,
                 authDone, parsed, outcome, issued, ops, last, grantLog>>
treeVars == <<tListing, tKind, tKids, tCount, comments, tDone>>
startVars == <<env, startup, loaded, startError, clientBuilt, exitCode>>
toolVars == <<request, hpc, call, reply>>
postVars == <<rawPost, post, postMapped>>
vars == <<sessionVars, treeVars, startVars, toolVars, postVars>>
nonSessionVars == <<treeVars, startVars, toolVars, postVars>>
nonTreeVars == <<sessionVars, startVars, toolVars, postVars>>
nonStartVars == <<sessionVars, treeVars, toolVars, postVars>>
nonToolVars == <<sessionVars, treeVars, startVars, postVars>>
nonPostVars == <<sessionVars, treeVars, startVars, toolVars>>

\* ---------------------------------------------------------------- values
NoToken == [src |-> "none", n |-> 0]
PreToken == [src |-> "config", n |-> 0]
ExToken(n) == [src |-> "exchange", n |-> n]

NoResp == [status |-> 0, statusText |-> "", access_token |-> NoToken, expires_in |-> 0]
NoOutcome == [kind |-> "none", status |-> 0, statusText |-> ""]
NoExchange == [token |-> NoToken, at |-> 0, expires_in |-> 0, happened |-> FALSE]

\* Config objects: each optional credential is a non-empty string or missing
\* (undefined or "", both falsy in the code).
Configs ==
    [accessToken : {"", "tok"}, refreshToken : {"", "rt"},
     username : {"", "user"}, password : {"", "pw"}]

Truthy(s) == s # ""

\* response.ok
Ok(status) == status >= 200 /\ status <= 299

FailureReplies ==
    { [status |-> 401, statusText |-> "Unauthorized", access_token |-> NoToken, expires_in |-> 0],
      [status |-> 429, statusText |-> "Too Many Requests", access_token |-> NoToken, expires_in |-> 0] }

TokenReplies(n) ==
    { [status |-> 200, statusText |-> "OK", access_token |-> ExToken(n), expires_in |-> L] :
        L \in Lifetimes }

ApiReplies ==
    { [status |-> 200, statusText |-> "OK", access_token |-> NoToken, expires_in |-> 0] }
    \cup FailureReplies

\* ---------------------------------------------------------------- session
\* constructor: this.accessToken = config.accessToken || null
ConstructorToken(c) == IF Truthy(c.accessToken) THEN PreToken ELSE NoToken

\* authenticate(): if (this.accessToken && Date.now() < this.tokenExpiry) return;
TokenValid(tok, expiry, t) == tok # NoToken /\ t < expiry

\* (variant: the password grant is tried before the refresh token)
GrantType_PasswordFirst(c) ==
    IF Truthy(c.username) /\ Truthy(c.password) THEN "password"
    ELSE IF Truthy(c.refreshToken) THEN "refresh_token"
    ELSE "client_credentials"

\* (variant: after a rejected exchange the client falls back to client credentials)
GrantType_Fallback(c) ==
    IF grantLog.rejected # {} THEN "client_credentials"
    ELSE IF Truthy(c.refreshToken) THEN "refresh_token"
    ELSE IF Truthy(c.username) /\ Truthy(c.password) THEN "password"
    ELSE "client_credentials"

\* authenticate(): the grant_type of the request body
GrantType(c) ==
    IF Truthy(c.refreshToken) THEN "refresh_token"
    ELSE IF Truthy(c.username) /\ Truthy(c.password) THEN "password"
    ELSE "client_credentials"

\* (variant: no safety margin)
NewExpiry_NoMargin(t, expiresIn) == t + (expiresIn * 1000)

\* (variant: the lifetime is taken for milliseconds)
NewExpiry_Seconds(t, expiresIn) == t + expiresIn - 60000

\* authenticate(): Date.now() + (data.expires_in * 1000) - 60000
NewExpiry(t, expiresIn) == t + (expiresIn * 1000) - 60000

\* A query method calls makeRequest(), which calls authenticate(): either the
\* cached token passes the check and authenticate() returns, or the token
\* request is sent and the operation waits for its answer.
BeginQuery(q) ==
    /\ pc[q] = "idle"
    /\ ops < MaxOps
    /\ ops' = ops + 1
    /\ startedAt' = [startedAt EXCEPT ![q] = now]
    /\ IF TokenValid(accessToken, tokenExpiry, now)
       THEN /\ pc' = [pc EXCEPT ![q] = "authed"]
            /\ authDone' = [authDone EXCEPT ![q] = TRUE]
            /\ tokenReqs' = [tokenReqs EXCEPT ![q] = 0]
            /\ grantSent' = [grantSent EXCEPT ![q] = "none"]
            /\ UNCHANGED grantLog
       ELSE /\ pc' = [pc EXCEPT ![q] = "auth_wait"]
            /\ authDone' = [authDone EXCEPT ![q] = FALSE]
            /\ tokenReqs' = [tokenReqs EXCEPT ![q] = 1]
            /\ grantSent' = [grantSent EXCEPT ![q] = GrantType(config)]
            /\ grantLog' = [grantLog EXCEPT
                               !.used = @ \cup {GrantType(config)},
                               !.retried = @ \/ grantLog.rejected # {}]
    /\ UNCHANGED <<config, accessToken, tokenExpiry, now, ticks, authResp, apiResp,
                   apiReqs, sent, parsed, outcome, issued, last>>
    /\ UNCHANGED nonSessionVars

\* The token endpoint answers the request of q: a fresh token with a lifetime,
\* or a rejection.
TokenEndpointReply(q) ==
    /\ pc[q] = "auth_wait"
    /\ \/ /\ issued < MaxExchanges
          /\ issued' = issued + 1
          /\ \E r \in TokenReplies(issued + 1) :
                authResp' = [authResp EXCEPT ![q] = r]
       \/ /\ issued' = issued
          /\ \E r \in FailureReplies :
                authResp' = [authResp EXCEPT ![q] = r]
    /\ pc' = [pc EXCEPT ![q] = "auth_reply"]
    /\ startedAt' = [startedAt EXCEPT ![q] = 0]
    /\ UNCHANGED <<grantLog, config, accessToken, tokenExpiry, now, ticks, grantSent, apiResp,
                   tokenReqs, apiReqs, sent, authDone, parsed, outcome,
                   ops, last>>
    /\ UNCHANGED nonSessionVars

\* (variant: a rejected exchange drops the cached token)
AuthFailure_ClearSession(q) ==
    /\ outcome' = [outcome EXCEPT ![q] =
                     [kind |-> "Authentication failed",
                      status |-> authResp[q].status,
                      statusText |-> authResp[q].statusText]]
    /\ pc' = [pc EXCEPT ![q] = "done"]
    /\ accessToken' = NoToken
    /\ tokenExpiry' = 0
    /\ UNCHANGED <<tokenReqs, authDone, last>>

\* (variant: a rejected exchange is ignored and the request goes on)
AuthFailure_Swallow(q) ==
    /\ pc' = [pc EXCEPT ![q] = "authed"]
    /\ UNCHANGED <<outcome, tokenReqs, accessToken, tokenExpiry, authDone, last>>

\* (variant: a rejected exchange is tried once more)
AuthFailure_Retry(q) ==
    /\ IF tokenReqs[q] < 2
       THEN /\ pc' = [pc EXCEPT ![q] = "auth_wait"]
            /\ tokenReqs' = [tokenReqs EXCEPT ![q] = tokenReqs[q] + 1]
            /\ UNCHANGED outcome
       ELSE /\ pc' = [pc EXCEPT ![q] = "done"]
            /\ outcome' = [outcome EXCEPT ![q] =
                             [kind |-> "Authentication failed",
                              status |-> authResp[q].status,
                              statusText |-> authResp[q].statusText]]
            /\ UNCHANGED tokenReqs
    /\ UNCHANGED <<accessToken, tokenExpiry, authDone, last>>

\* authenticate(), !response.ok:
\* throw new Error(`Authentication failed: ${response.status} ${response.statusText}`)
AuthFailure(q) ==
    /\ outcome' = [outcome EXCEPT ![q] =
                     [kind |-> "Authentication failed",
                      status |-> authResp[q].status,
                      statusText |-> authResp[q].statusText]]
    /\ pc' = [pc EXCEPT ![q] = "done"]
    /\ UNCHANGED <<tokenReqs, accessToken, tokenExpiry, authDone, last>>

\* (variant: the expiry is only ever moved forward)
AuthSuccess_KeepLaterExpiry(q) ==
    /\ accessToken' = authResp[q].access_token
    /\ tokenExpiry' = IF NewExpiry(now, authResp[q].expires_in) > tokenExpiry
                      THEN NewExpiry(now, authResp[q].expires_in)
                      ELSE tokenExpiry
    /\ last' = [token |-> authResp[q].access_token, at |-> now,
                expires_in |-> authResp[q].expires_in, happened |-> TRUE]
    /\ authDone' = [authDone EXCEPT ![q] = TRUE]
    /\ pc' = [pc EXCEPT ![q] = "authed"]
    /\ UNCHANGED <<outcome, tokenReqs>>

\* authenticate(), response.ok: the token and its expiry are stored (two
\* assignments with no await between them); `last` remembers the exchange.
AuthSuccess(q) ==
    /\ accessToken' = authResp[q].access_token
    /\ tokenExpiry' = NewExpiry(now, authResp[q].expires_in)
    /\ last' = [token |-> authResp[q].access_token, at |-> now,
                expires_in |-> authResp[q].expires_in, happened |-> TRUE]
    /\ authDone' = [authDone EXCEPT ![q] = TRUE]
    /\ pc' = [pc EXCEPT ![q] = "authed"]
    /\ UNCHANGED <<outcome, tokenReqs>>

\* authenticate() resumes with the answer of the token endpoint.
AuthenticateResume(q) ==
    /\ pc[q] = "auth_reply"
    /\ IF ~Ok(authResp[q].status) THEN AuthFailure(q) ELSE AuthSuccess(q)
    /\ authResp' = [authResp EXCEPT ![q] = NoResp]
    /\ grantLog' = IF ~Ok(authResp[q].status)
                   THEN [grantLog EXCEPT !.rejected = @ \cup {grantSent[q]}]
                   ELSE grantLog
    /\ UNCHANGED <<config, now, ticks, grantSent, apiResp, apiReqs, sent,
                   startedAt, parsed, issued, ops>>
    /\ UNCHANGED nonSessionVars

\* makeRequest() resumes after `await this.authenticate()` and sends the API
\* request with `Bearer ${this.accessToken}`.
SendApiRequest(q) ==
    /\ pc[q] = "authed"
    /\ sent' = [sent EXCEPT ![q] = accessToken]
    /\ apiReqs' = [apiReqs EXCEPT ![q] = apiReqs[q] + 1]
    /\ pc' = [pc EXCEPT ![q] = "api_wait"]
    /\ startedAt' = [startedAt EXCEPT ![q] = 0]
    /\ UNCHANGED <<grantLog, config, accessToken, tokenExpiry, now, ticks, grantSent, authResp,
                   apiResp, tokenReqs, authDone, parsed, outcome, issued,
                   ops, last>>
    /\ UNCHANGED nonSessionVars

\* The API host answers the request of q.
ApiReply(q) ==
    /\ pc[q] = "api_wait"
    /\ \E r \in ApiReplies : apiResp' = [apiResp EXCEPT ![q] = r]
    /\ pc' = [pc EXCEPT ![q] = "api_reply"]
    /\ UNCHANGED <<grantLog, config, accessToken, tokenExpiry, now, ticks, grantSent, authResp,
                   tokenReqs, apiReqs, sent, startedAt, authDone, parsed, outcome,
                   issued, ops, last>>
    /\ UNCHANGED nonSessionVars

\* (variant: the body is parsed before the status is looked at)
ApiFailure_ParseFirst(q) ==
    /\ outcome' = [outcome EXCEPT ![q] =
                     [kind |-> "Reddit API error",
                      status |-> apiResp[q].status,
                      statusText |-> apiResp[q].statusText]]
    /\ parsed' = [parsed EXCEPT ![q] = TRUE]

\* makeRequest(), !response.ok:
\* throw new Error(`Reddit API error: ${response.status} ${response.statusText}`)
ApiFailure(q) ==
    /\ outcome' = [outcome EXCEPT ![q] =
                     [kind |-> "Reddit API error",
                      status |-> apiResp[q].status,
                      statusText |-> apiResp[q].statusText]]
    /\ UNCHANGED parsed

\* makeRequest(), response.ok: return response.json(); the query method maps
\* the payload and returns the entities.
ApiSuccess(q) ==
    /\ parsed' = [parsed EXCEPT ![q] = TRUE]
    /\ outcome' = [outcome EXCEPT ![q] =
                     [kind |-> "entities",
                      status |-> apiResp[q].status,
                      statusText |-> apiResp[q].statusText]]

\* makeRequest() resumes with the answer of the API host.
MakeRequestResume(q) ==
    /\ pc[q] = "api_reply"
    /\ IF ~Ok(apiResp[q].status) THEN ApiFailure(q) ELSE ApiSuccess(q)
    /\ pc' = [pc EXCEPT ![q] = "done"]
    /\ apiResp' = [apiResp EXCEPT ![q] = NoResp]
    /\ UNCHANGED <<grantLog, config, accessToken, tokenExpiry, now, ticks, grantSent, authResp,
                   tokenReqs, apiReqs, sent, startedAt, authDone, issued, ops, last>>
    /\ UNCHANGED nonSessionVars

\* The caller has received the result or the error of the operation; the
\* locals of the call are gone.
Return(q) ==
    /\ pc[q] = "done"
    /\ pc' = [pc EXCEPT ![q] = "idle"]
    /\ grantSent' = [grantSent EXCEPT ![q] = "none"]
    /\ tokenReqs' = [tokenReqs EXCEPT ![q] = 0]
    /\ apiReqs' = [apiReqs EXCEPT ![q] = 0]
    /\ sent' = [sent EXCEPT ![q] = NoToken]
    /\ startedAt' = [startedAt EXCEPT ![q] = 0]
    /\ authDone' = [authDone EXCEPT ![q] = FALSE]
    /\ parsed' = [parsed EXCEPT ![q] = FALSE]
    /\ outcome' = [outcome EXCEPT ![q] = NoOutcome]
    /\ UNCHANGED <<grantLog, config, accessToken, tokenExpiry, now, ticks, authResp, apiResp,
                   issued, ops, last>>
    /\ UNCHANGED nonSessionVars

\* The clock advances.  A continuation that follows a resolved promise with
\* no network call in between (from the return of authenticate() to fetch in
\* makeRequest()) runs in the same turn of the event loop, so the clock does
\* not advance while a query is at "authed".
Tick(d) ==
    /\ ticks < MaxTicks
    /\ \A q \in Queries : pc[q] # "authed"
    /\ now' = now + d
    /\ ticks' = ticks + 1
    /\ UNCHANGED <<grantLog, config, accessToken, tokenExpiry, pc, grantSent, authResp, apiResp,
                   tokenReqs, apiReqs, sent, startedAt, authDone, parsed, outcome,
                   issued, ops, last>>
    /\ UNCHANGED nonSessionVars

\* ---------------------------------------------------------------- thread
\* The thread of a /comments response: node 0 stands for the listing data[1],
\* tKids[n] is data.replies.data.children of node n (<<>> when the node has
\* no replies, or an empty replies structure), tKind[n] is its kind.
EmptyThread == [i \in 0..MaxNodes |-> <<>>]
NoKinds == [i \in 1..MaxNodes |-> "none"]
Kinds == {"t1", "more"}

InsertAt(seq, pos, x) ==
    SubSeq(seq, 1, pos - 1) \o <<x>> \o SubSeq(seq, pos, Len(seq))

\* mapComment(): fields pass through, the permalink gets the origin in front
mapComment(n) == [id |-> n, permalink |-> <<"https://reddit.com", n>>]

\* (variant: a comment is pushed after its replies)
RECURSIVE extractComments_PostOrder(_, _)
extractComments_PostOrder(children, acc) ==
    IF children = <<>> THEN acc
    ELSE LET child == Head(children)
             after ==
                 IF tKind[child] = "t1"
                 THEN LET below == IF tKids[child] # <<>>
                                   THEN extractComments_PostOrder(tKids[child], acc)
                                   ELSE acc
                      IN  Append(below, mapComment(child))
                 ELSE acc
         IN  extractComments_PostOrder(Tail(children), after)

\* (variant: the kind of a node is not looked at)
RECURSIVE extractComments_AnyKind(_, _)
extractComments_AnyKind(children, acc) ==
    IF children = <<>> THEN acc
    ELSE LET child == Head(children)
             pushed == Append(acc, mapComment(child))
             after == IF tKids[child] # <<>>
                      THEN extractComments_AnyKind(tKids[child], pushed)
                      ELSE pushed
         IN  extractComments_AnyKind(Tail(children), after)

\* extractComments(children, comments): returns comments after the call
RECURSIVE extractComments(_, _)
extractComments(children, acc) ==
    IF children = <<>> THEN acc
    ELSE LET child == Head(children)
             after ==
                 IF tKind[child] = "t1"
                 THEN LET pushed == Append(acc, mapComment(child))
                      IN  IF tKids[child] # <<>>
                          THEN extractComments(tKids[child], pushed)
                          ELSE pushed
                 ELSE acc
         IN  extractComments(Tail(children), after)

\* The API host builds the thread of its answer: a node of some kind is put
\* at some place among the replies of a comment (or in the listing).
AddNode(parent, kind, pos) ==
    /\ ~tDone
    /\ tListing
    /\ tCount < MaxNodes
    /\ parent \in 0..tCount
    /\ parent # 0 => tKind[parent] = "t1"
    /\ pos \in 1..(Len(tKids[parent]) + 1)
    /\ tCount' = tCount + 1
    /\ tKind' = [tKind EXCEPT ![tCount + 1] = kind]
    /\ tKids' = [tKids EXCEPT ![parent] = InsertAt(tKids[parent], pos, tCount + 1)]
    /\ UNCHANGED <<tListing, comments, tDone>>
    /\ UNCHANGED nonTreeVars

\* getPostComments() after makeRequest() returned the thread
GetPostComments ==
    /\ ~tDone
    /\ comments' = IF tListing THEN extractComments(tKids[0], <<>>) ELSE <<>>
    /\ tDone' = TRUE
    /\ UNCHANGED <<tListing, tKind, tKids, tCount>>
    /\ UNCHANGED nonTreeVars

SessionInit(c) ==
    /\ config = c
    /\ accessToken = ConstructorToken(c)
    /\ tokenExpiry = 0
    /\ now = 0
    /\ ticks = 0
    /\ pc = [q \in Queries |-> "idle"]
    /\ grantSent = [q \in Queries |-> "none"]
    /\ authResp = [q \in Queries |-> NoResp]
    /\ apiResp = [q \in Queries |-> NoResp]
    /\ tokenReqs = [q \in Queries |-> 0]
    /\ apiReqs = [q \in Queries |-> 0]
    /\ sent = [q \in Queries |-> NoToken]
    /\ startedAt = [q \in Queries |-> 0]
    /\ authDone = [q \in Queries |-> FALSE]
    /\ parsed = [q \in Queries |-> FALSE]
    /\ outcome = [q \in Queries |-> NoOutcome]
    /\ issued = 0
    /\ ops = 0
    /\ last = NoExchange
    /\ grantLog = [used |-> {}, rejected |-> {}, retried |-> FALSE]

\* ---------------------------------------------------------------- startup
\* An environment variable that is not set reads as undefined.
Undefined == "<undefined>"

EnvValues == {Undefined, "", "value"}

Environments ==
    [REDDIT_CLIENT_ID : EnvValues, REDDIT_CLIENT_SECRET : EnvValues,
     REDDIT_USER_AGENT : EnvValues,
     REDDIT_USERNAME : {Undefined, "value"}, REDDIT_PASSWORD : {Undefined, "value"},
     REDDIT_REFRESH_TOKEN : {Undefined, "value"}, REDDIT_ACCESS_TOKEN : {Undefined, "value"}]

NoConfig ==
    [clientId |-> Undefined, clientSecret |-> Undefined, userAgent |-> Undefined,
     username |-> Undefined, password |-> Undefined, refreshToken |-> Undefined,
     accessToken |-> Undefined]

\* JavaScript `a || b` on an optional string
OrElse(a, b) == IF a = Undefined \/ a = "" THEN b ELSE a

\* getConfig(): the object handed to ConfigSchema.parse
RawConfig(e) ==
    [clientId |-> OrElse(e.REDDIT_CLIENT_ID, ""),
     clientSecret |-> OrElse(e.REDDIT_CLIENT_SECRET, ""),
     userAgent |-> OrElse(e.REDDIT_USER_AGENT, "reddit-mcp-server/1.0.0"),
     username |-> e.REDDIT_USERNAME,
     password |-> e.REDDIT_PASSWORD,
     refreshToken |-> e.REDDIT_REFRESH_TOKEN,
     accessToken |-> e.REDDIT_ACCESS_TOKEN]

\* z.string().min(1)
MinOne(v) == v # Undefined /\ v # ""

\* ConfigSchema.parse succeeds
ConfigSchemaOk(c) == MinOne(c.clientId) /\ MinOne(c.clientSecret) /\ MinOne(c.userAgent)

\* const config = getConfig()
GetConfig ==
    /\ startup = "start"
    /\ IF ConfigSchemaOk(RawConfig(env))
       THEN /\ loaded' = RawConfig(env)
            /\ startup' = "configured"
            /\ UNCHANGED startError
       ELSE /\ startError' = "ZodError"
            /\ startup' = "caught"
            /\ UNCHANGED loaded
    /\ UNCHANGED <<env, clientBuilt, exitCode>>
    /\ UNCHANGED nonStartVars

\* redditClient = new RedditClient(config)
NewRedditClient ==
    /\ startup = "configured"
    /\ clientBuilt' = TRUE
    /\ startup' = "ready"
    /\ UNCHANGED <<env, loaded, startError, exitCode>>
    /\ UNCHANGED nonStartVars

\* catch (error) { console.error(...); process.exit(1); }
ExitOnError ==
    /\ startup = "caught"
    /\ exitCode' = 1
    /\ startup' = "exited"
    /\ UNCHANGED <<env, loaded, startError, clientBuilt>>
    /\ UNCHANGED nonStartVars

\* The startup code is not part of the behaviours of the client.
StartIdle ==
    /\ env = [REDDIT_CLIENT_ID |-> "value", REDDIT_CLIENT_SECRET |-> "value",
              REDDIT_USER_AGENT |-> "value", REDDIT_USERNAME |-> Undefined,
              REDDIT_PASSWORD |-> Undefined, REDDIT_REFRESH_TOKEN |-> Undefined,
              REDDIT_ACCESS_TOKEN |-> Undefined]
    /\ startup = "ready"
    /\ loaded = RawConfig(env)
    /\ startError = "none"
    /\ clientBuilt = TRUE
    /\ exitCode = 0

\* ---------------------------------------------------------------- tool calls
ToolNames ==
    {"get_subreddit_posts", "get_post", "get_post_comments", "get_subreddit_info",
     "get_user_info", "get_user_posts", "get_user_comments", "search_posts",
     "search_subreddits"}

\* JavaScript values handed to a client method
JsUndefined == [type |-> "undefined", s |-> "", n |-> 0]
JsStr(s) == [type |-> "string", s |-> s, n |-> 0]
JsNum(n) == [type |-> "number", s |-> "", n |-> n]
JsOptStr(v) == IF v = Undefined THEN JsUndefined ELSE JsStr(v)

JsTruthy(v) ==
    \/ v.type = "string" /\ v.s # ""
    \/ v.type = "number" /\ v.n # 0

Digits == <<"0", "1", "2", "3", "4", "5", "6", "7", "8", "9">>

\* Number.prototype.toString() on a natural number
RECURSIVE DecimalString(_)
DecimalString(n) ==
    IF n < 10 THEN Digits[n + 1]
    ELSE DecimalString(n \div 10) \o Digits[(n % 10) + 1]

\* the string URLSearchParams stores for a value
JsToString(v) ==
    IF v.type = "number" THEN DecimalString(v.n)
    ELSE IF v.type = "string" THEN v.s
    ELSE "undefined"

\* The arguments of a call: key is the required string of the tool
\* (subreddit, postId, username or query); an optional number is <<>> or <<n>>.
ToolArguments ==
    [key : {"", "cats"}, subreddit : {Undefined, "aww"},
     sort : {Undefined, "top", "bogus"},
     limit : {<<>>, <<0>>, <<1>>, <<50>>, <<100>>, <<101>>},
     time : {Undefined, "day"}]

NoCall == [method |-> "none", path |-> "", q |-> Undefined, sort |-> Undefined,
           limit |-> Undefined, type |-> Undefined, restrict_sr |-> Undefined,
           t |-> Undefined]
NoReply == [kind |-> "none", code |-> "none"]

\* which schemas have a sort enum (every one of them contains 'top') and a limit
HasSort(tool) ==
    tool \in {"get_subreddit_posts", "get_post_comments", "get_user_posts",
              "get_user_comments", "search_posts"}
HasLimit(tool) ==
    tool \in {"get_subreddit_posts", "get_user_posts", "get_user_comments",
              "search_posts", "search_subreddits"}
SortDefault(tool) ==
    CASE tool = "get_subreddit_posts" -> "hot"
      [] tool = "get_post_comments" -> "best"
      [] tool = "search_posts" -> "relevance"
      [] OTHER -> "new"

\* XSchema.parse(request.params.arguments) does not throw
SchemaOk(tool, a) ==
    /\ MinOne(a.key)
    /\ HasSort(tool) => a.sort \in {Undefined, "top"}
    /\ HasLimit(tool) => (a.limit = <<>> \/ (a.limit[1] >= 1 /\ a.limit[1] <= 100))

\* XSchema.parse(request.params.arguments): defaults filled in, keys the
\* schema does not name stripped (no schema names `time`)
SchemaParse(tool, a) ==
    [key |-> a.key,
     subreddit |-> IF tool = "search_posts" THEN a.subreddit ELSE Undefined,
     sort |-> IF HasSort(tool)
              THEN (IF a.sort = Undefined THEN SortDefault(tool) ELSE a.sort)
              ELSE Undefined,
     limit |-> IF HasLimit(tool)
               THEN (IF a.limit = <<>> THEN 25 ELSE a.limit[1])
               ELSE 0]

\* RedditClient.searchPosts(query, subreddit, sort, time, limit)
searchPosts(query, subreddit, sort, time, limit) ==
    [method |-> "searchPosts",
     path |-> IF JsTruthy(subreddit) THEN "/r/{subreddit}/search" ELSE "/search",
     q |-> query,
     sort |-> sort,
     limit |-> DecimalString(limit),
     type |-> "link",
     restrict_sr |-> IF JsTruthy(subreddit) THEN "true" ELSE Undefined,
     t |-> IF JsTruthy(time) THEN JsToString(time) ELSE Undefined]

\* the other client methods: only the method matters here
OtherMethod(tool, args) ==
    [NoCall EXCEPT !.method = tool, !.path = "/...",
                   !.limit = IF HasLimit(tool) THEN DecimalString(args.limit) ELSE Undefined,
                   !.sort = args.sort]

\* the client call of each case of the switch; for search_posts:
\* redditClient.searchPosts(args.query, args.subreddit, args.sort, args.limit)
ClientCall(tool, args) ==
    IF tool = "search_posts"
    THEN searchPosts(args.key, JsOptStr(args.subreddit), args.sort, JsNum(args.limit), 25)
    ELSE OtherMethod(tool, args)

\* catch (error): a ZodError becomes InvalidParams, anything else InternalError
CatchInHandler(thrown) ==
    IF thrown = "ZodError"
    THEN [kind |-> "McpError", code |-> "InvalidParams"]
    ELSE [kind |-> "McpError", code |-> "InternalError"]

\* The handler runs up to the await of the client method: the switch on the
\* name, the parse of the arguments, the call.  Whatever is thrown inside the
\* try block (the McpError of the default case included) goes through catch.
HandleCallTool ==
    /\ hpc = "received"
    /\ IF request.name \notin ToolNames
       THEN /\ reply' = CatchInHandler("McpError:MethodNotFound")
            /\ hpc' = "done"
            /\ UNCHANGED call
       ELSE IF ~SchemaOk(request.name, request.arguments)
       THEN /\ reply' = CatchInHandler("ZodError")
            /\ hpc' = "done"
            /\ UNCHANGED call
       ELSE /\ call' = ClientCall(request.name, SchemaParse(request.name, request.arguments))
            /\ hpc' = "calling"
            /\ UNCHANGED reply
    /\ UNCHANGED request
    /\ UNCHANGED nonToolVars

\* The client method returns its entities or throws the Error of
\* authenticate() or makeRequest().
ClientReturns(ok) ==
    /\ hpc = "calling"
    /\ reply' = IF ok THEN [kind |-> "content", code |-> "none"]
                ELSE CatchInHandler("Error")
    /\ hpc' = "done"
    /\ UNCHANGED <<request, call>>
    /\ UNCHANGED nonToolVars

\* No tool call is part of the behaviours of the client.
ToolIdle ==
    /\ request = [name |-> "none",
                  arguments |-> [key |-> "", subreddit |-> Undefined, sort |-> Undefined,
                                 limit |-> <<>>, time |-> Undefined]]
    /\ hpc = "idle"
    /\ call = NoCall
    /\ reply = NoReply

\* ---------------------------------------------------------------- posts
\* Raw posts; a field the payload does not have reads as undefined.
RawPosts ==
    [id : {"p1", "p2"}, title : {"a title"},
     selftext : {Undefined, "", "text"},
     permalink : {"/r/test/comments/1/x", "/r/aww/comments/2/y"},
     thumbnail : {Undefined, "", "self", "default", "nsfw", "http://x/y.jpg"}]

NoPost == [id |-> Undefined, title |-> Undefined, selftext |-> Undefined,
           permalink |-> <<>>, thumbnail |-> Undefined]

\* (variant: the sentinels become the empty string)
mapPost_EmptyThumbnail(data) ==
    [id |-> data.id,
     title |-> data.title,
     selftext |-> OrElse(data.selftext, ""),
     permalink |-> <<"https://reddit.com", data.permalink>>,
     thumbnail |-> IF data.thumbnail # "self" /\ data.thumbnail # "default"
                   THEN data.thumbnail ELSE ""]

\* mapPost(data); the permalink is the origin followed by the raw permalink
mapPost(data) ==
    [id |-> data.id,
     title |-> data.title,
     selftext |-> OrElse(data.selftext, ""),
     permalink |-> <<"https://reddit.com", data.permalink>>,
     thumbnail |-> IF data.thumbnail # "self" /\ data.thumbnail # "default"
                   THEN data.thumbnail ELSE Undefined]

\* a query method maps a post of the response
MapPost ==
    /\ ~postMapped
    /\ post' = mapPost(rawPost)
    /\ postMapped' = TRUE
    /\ UNCHANGED rawPost
    /\ UNCHANGED nonPostVars

\* No post is part of the behaviours of the client.
PostIdle ==
    /\ rawPost = [id |-> "p1", title |-> "a title", selftext |-> "",
                  permalink |-> "/r/test/comments/1/x", thumbnail |-> "self"]
    /\ post = NoPost
    /\ postMapped = FALSE

TreeInit ==
    /\ tListing = TRUE
    /\ tKind = NoKinds
    /\ tKids = EmptyThread
    /\ tCount = 0
    /\ comments = <<>>
    /\ tDone = FALSE

Init ==
    /\ \E c \in Configs : SessionInit(c)
    /\ TreeInit
    /\ StartIdle
    /\ ToolIdle
    /\ PostIdle

Next ==
    \/ \E q \in Queries : BeginQuery(q)
    \/ \E q \in Queries : TokenEndpointReply(q)
    \/ \E q \in Queries : AuthenticateResume(q)
    \/ \E q \in Queries : SendApiRequest(q)
    \/ \E q \in Queries : ApiReply(q)
    \/ \E q \in Queries : MakeRequestResume(q)
    \/ \E q \in Queries : Return(q)
    \/ \E d \in TickSteps : Tick(d)

Spec == Init /\ [][Next]_vars

\* The flattener on its own: threads of up to MaxNodes nodes.
NoOptions == [accessToken |-> "", refreshToken |-> "", username |-> "", password |-> ""]

InitTree ==
    /\ SessionInit(NoOptions)
    /\ tListing \in BOOLEAN
    /\ tKind = NoKinds
    /\ tKids = EmptyThread
    /\ tCount = 0
    /\ comments = <<>>
    /\ tDone = FALSE
    /\ StartIdle
    /\ ToolIdle
    /\ PostIdle

NextTree ==
    \/ \E parent \in 0..MaxNodes, kind \in Kinds, pos \in 1..(MaxNodes + 1) :
          AddNode(parent, kind, pos)
    \/ GetPostComments

SpecTree == InitTree /\ [][NextTree]_vars

\* The startup code of index.ts under every environment.
InitStart ==
    /\ SessionInit(NoOptions)
    /\ TreeInit
    /\ env \in Environments
    /\ startup = "start"
    /\ loaded = NoConfig
    /\ startError = "none"
    /\ clientBuilt = FALSE
    /\ exitCode = 0
    /\ ToolIdle
    /\ PostIdle

NextStart ==
    \/ GetConfig
    \/ NewRedditClient
    \/ ExitOnError

SpecStart == InitStart /\ [][NextStart]_vars

\* The tool-call handler of index.ts under every request.
InitTool ==
    /\ SessionInit(NoOptions)
    /\ TreeInit
    /\ StartIdle
    /\ request \in [name : ToolNames \cup {"no_such_tool"}, arguments : ToolArguments]
    /\ hpc = "received"
    /\ call = NoCall
    /\ reply = NoReply
    /\ PostIdle

NextTool ==
    \/ HandleCallTool
    \/ \E ok \in BOOLEAN : ClientReturns(ok)

SpecTool == InitTool /\ [][NextTool]_vars

\* mapPost() on every raw post.
InitPost ==
    /\ SessionInit(NoOptions)
    /\ TreeInit
    /\ StartIdle
    /\ ToolIdle
    /\ rawPost \in RawPosts
    /\ post = NoPost
    /\ postMapped = FALSE

NextPost == MapPost

SpecPost == InitPost /\ [][NextPost]_vars

TypeOK ==
    /\ config \in Configs
    /\ ticks \in 0..MaxTicks
    /\ issued \in 0..MaxExchanges
    /\ ops \in 0..MaxOps
    /\ \A q \in Queries :
          pc[q] \in {"idle", "auth_wait", "auth_reply", "authed", "api_wait", "api_reply", "done"}

\* ---------------------------------------------------------------- claims

\* C1: with a pre-supplied access token that has not expired (the clock of the
\* model stays within seconds of construction, the token lives an hour), no
\* query sends a request to the token endpoint, and every API request carries
\* the pre-supplied token.
C1_PreSuppliedTokenReused ==
    Truthy(config.accessToken) =>
        \A q \in Queries :
            /\ tokenReqs[q] = 0
            /\ pc[q] # "auth_wait"
            /\ apiReqs[q] > 0 => sent[q] = PreToken

\* C2: a token request carries grant_type "refresh_token" whenever a refresh
\* token is configured, "password" only when there is no refresh token and
\* both username and password are configured, and "client_credentials" in
\* every remaining case.
C2_GrantPriority ==
    \A q \in Queries :
        tokenReqs[q] > 0 =>
            /\ config.refreshToken # "" => grantSent[q] = "refresh_token"
            /\ (config.refreshToken = "" /\ config.username # "" /\ config.password # "")
                  => grantSent[q] = "password"
            /\ (config.refreshToken = "" /\ (config.username = "" \/ config.password = ""))
                  => grantSent[q] = "client_credentials"

C2_Witness ==
    \E q \in Queries :
        /\ tokenReqs[q] = 1
        /\ grantSent[q] = "refresh_token"
        /\ config.username # "" /\ config.password # "" /\ config.accessToken # ""

\* C3 (as stated): every API request is sent with a token and at a time
\* strictly before the recorded expiry of the session, whatever lifetime the
\* token endpoint reported.
C3_SentBeforeExpiry ==
    [][\A q \in Queries :
          (pc[q] = "authed" /\ pc'[q] = "api_wait") =>
              /\ sent'[q] = accessToken
              /\ sent'[q] # NoToken
              /\ now < tokenExpiry]_vars

\* C3 (amended): every API request is sent with a token obtained from an
\* exchange, and, when the lifetime reported for that token is more than 60
\* seconds, at a time strictly before the recorded expiry of the session.
C3_SentBeforeExpiryLongLived ==
    [][\A q \in Queries :
          (pc[q] = "authed" /\ pc'[q] = "api_wait") =>
              /\ sent'[q] = accessToken
              /\ sent'[q].src = "exchange"
              /\ last.happened /\ last.token = accessToken
              /\ last.expires_in > 60 => now < tokenExpiry]_vars

C3_Witness ==
    \E q \in Queries :
        /\ pc[q] = "api_wait"
        /\ tokenReqs[q] = 0
        /\ sent[q] = accessToken
        /\ last.expires_in = 62
        /\ now > last.at
        /\ now < tokenExpiry

\* C4: after an exchange completed at time T with lifetime L seconds, a query
\* that starts at t < T + L - 60s goes on with the cached token and sends no
\* token request, and a query that starts at t >= T + L - 60s sends one.
C4_ExpiryBoundary ==
    [][\A q \in Queries :
          (pc[q] = "idle" /\ pc'[q] # "idle" /\ last.happened) =>
              IF now < last.at + (last.expires_in - 60) * 1000
              THEN pc'[q] = "authed" /\ tokenReqs'[q] = 0
              ELSE pc'[q] = "auth_wait" /\ tokenReqs'[q] = 1]_vars

C4_Witness ==
    \E q \in Queries :
        /\ pc[q] = "auth_wait"
        /\ last.happened
        /\ last.expires_in = 62
        /\ startedAt[q] = last.at + 2000

\* C5: when authenticate() resumes with a non-2xx answer, the token and the
\* expiry of the session are not changed by the call and the call fails with
\* an error carrying the status and the reason of the answer.
C5_FailedExchangeKeepsSession ==
    [][\A q \in Queries :
          (pc[q] = "auth_reply" /\ ~(authResp[q].status \in 200..299) /\ pc'[q] # "auth_reply") =>
              /\ accessToken' = accessToken
              /\ tokenExpiry' = tokenExpiry
              /\ pc'[q] = "done"
              /\ outcome'[q] = [kind |-> "Authentication failed",
                                status |-> authResp[q].status,
                                statusText |-> authResp[q].statusText]]_vars

C5_Witness ==
    \E q \in Queries :
        /\ outcome[q].kind = "Authentication failed"
        /\ outcome[q].status = 429
        /\ accessToken.src = "exchange"
        /\ tokenExpiry > 0

\* C6: an API request is sent only after authenticate() has returned, entities
\* are returned only after a parsed 2xx answer to the one API request, and an
\* operation that ends with the authentication error has sent no API request.
C6_Sequential ==
    \A q \in Queries :
        /\ apiReqs[q] > 0 => authDone[q]
        /\ pc[q] \in {"api_wait", "api_reply"} => apiReqs[q] > 0
        /\ parsed[q] => (apiReqs[q] > 0 /\ outcome[q].kind = "entities")
        /\ outcome[q].kind = "entities" =>
              (parsed[q] /\ apiReqs[q] > 0 /\ outcome[q].status \in 200..299)
        /\ ~authDone[q] /\ pc[q] = "done" =>
              (outcome[q].kind = "Authentication failed" /\ apiReqs[q] = 0)
        /\ outcome[q].kind = "Authentication failed" =>
              (apiReqs[q] = 0 /\ sent[q] = NoToken /\ pc[q] = "done")

C6_Witness ==
    \E q1, q2 \in Queries :
        /\ outcome[q1].kind = "entities"
        /\ tokenReqs[q1] = 1
        /\ outcome[q2].kind = "Authentication failed"

\* C7: when makeRequest() resumes with a non-2xx answer of the API host, the
\* operation ends with the API error carrying the status of the answer, the
\* body is not parsed and no entity is returned.
C7_ApiErrorKeepsStatus ==
    [][\A q \in Queries :
          (pc[q] = "api_reply" /\ ~(apiResp[q].status \in 200..299) /\ pc'[q] # "api_reply") =>
              /\ pc'[q] = "done"
              /\ outcome'[q].kind = "Reddit API error"
              /\ outcome'[q].status = apiResp[q].status
              /\ parsed'[q] = FALSE]_vars

C7_Witness ==
    \E q \in Queries :
        /\ pc[q] = "done"
        /\ outcome[q].kind = "Reddit API error"
        /\ outcome[q].status = 429
        /\ ~parsed[q]

\* C8: an operation sends at most one token request and at most one API
\* request, and the step that sees a failed answer ends the operation with
\* that error.
C8_NoRetry ==
    [][\A q \in Queries :
          /\ tokenReqs'[q] <= 1
          /\ apiReqs'[q] <= 1
          /\ (pc[q] = "auth_reply" /\ ~(authResp[q].status \in 200..299) /\ pc'[q] # "auth_reply") =>
                (pc'[q] = "done" /\ outcome'[q].status = authResp[q].status
                 /\ tokenReqs'[q] = 1 /\ apiReqs'[q] = 0)
          /\ (pc[q] = "api_reply" /\ ~(apiResp[q].status \in 200..299) /\ pc'[q] # "api_reply") =>
                (pc'[q] = "done" /\ outcome'[q].status = apiResp[q].status
                 /\ apiReqs'[q] = 1)
          /\ (pc[q] = "done" /\ pc'[q] # "done") => pc'[q] = "idle"]_vars

C8_Witness ==
    \E q \in Queries :
        /\ pc[q] = "done"
        /\ outcome[q].kind = "Reddit API error"
        /\ tokenReqs[q] = 1
        /\ apiReqs[q] = 1

\* C9: when concurrent queries each exchange a token, every one of them sends
\* its API request with a token that came from an exchange, and the session
\* holds the token of the exchange that wrote it last together with the
\* expiry computed for that same exchange.
C9_RaceSafe ==
    /\ \A q \in Queries :
          (tokenReqs[q] = 1 /\ apiReqs[q] > 0) => sent[q].src = "exchange"
    /\ last.happened =>
          /\ accessToken = last.token
          /\ tokenExpiry = last.at + (last.expires_in * 1000) - 60000

C9_Witness ==
    /\ \A q \in Queries : tokenReqs[q] = 1 /\ apiReqs[q] = 1 /\ sent[q] = ExToken(2)
    /\ accessToken = ExToken(2)
    /\ last.expires_in = 60

\* C10: the flattened thread lists the comments in depth-first pre-order:
\* every comment once, each comment directly followed by the comments below
\* it, and the replies of one node in their original order.
CommentNodes == {n \in 1..tCount : tKind[n] = "t1"}

KidsOf(n) == {tKids[n][i] : i \in 1..Len(tKids[n])}

RECURSIVE Below(_)
Below(n) == KidsOf(n) \cup UNION {Below(k) : k \in KidsOf(n)}

PosOf(n) == CHOOSE i \in 1..Len(comments) : comments[i].id = n

C10_PreOrder ==
    tDone =>
        /\ Len(comments) = Cardinality(CommentNodes)
        /\ {comments[i].id : i \in 1..Len(comments)} = CommentNodes
        /\ \A n \in CommentNodes :
              LET block == Below(n) \cap CommentNodes
              IN  /\ PosOf(n) + Cardinality(block) <= Len(comments)
                  /\ {comments[j].id : j \in (PosOf(n) + 1)..(PosOf(n) + Cardinality(block))} = block
        /\ \A p \in 0..tCount : \A i, j \in 1..Len(tKids[p]) :
              (i < j /\ tKids[p][i] \in CommentNodes /\ tKids[p][j] \in CommentNodes)
                  => PosOf(tKids[p][i]) < PosOf(tKids[p][j])
        /\ (tKids[0] = <<1>> /\ tKids[1] = <<2, 3>> /\ tKids[2] = <<4>> /\ CommentNodes = 1..4)
              => [i \in 1..Len(comments) |-> comments[i].id] = <<1, 2, 4, 3>>

C10_Witness ==
    /\ tDone
    /\ tKids[0] = <<1>> /\ tKids[1] = <<2, 3>> /\ tKids[2] = <<4>> /\ tKids[3] = <<>>
    /\ CommentNodes = 1..4
    /\ Len(comments) = 4
    /\ comments[1].id = 1 /\ comments[2].id = 2 /\ comments[3].id = 4 /\ comments[4].id = 3

\* C11: a node that is not a comment adds no entry and leaves the order of
\* the comments as it is in the thread without the placeholders; a thread
\* with placeholders only, or with no nodes, or with no listing, gives the
\* empty sequence.
OnlyComments(seq) == SelectSeq(seq, LAMBDA n : tKind[n] = "t1")

RECURSIVE WithoutPlaceholders(_)
WithoutPlaceholders(seq) ==
    IF seq = <<>> THEN <<>>
    ELSE <<Head(seq)>> \o WithoutPlaceholders(OnlyComments(tKids[Head(seq)]))
                       \o WithoutPlaceholders(Tail(seq))

C11_PlaceholdersSkipped ==
    tDone =>
        /\ \A i \in 1..Len(comments) : tKind[comments[i].id] = "t1"
        /\ [i \in 1..Len(comments) |-> comments[i].id]
              = WithoutPlaceholders(OnlyComments(tKids[0]))
        /\ CommentNodes = {} => comments = <<>>

C11_Witness ==
    /\ tDone
    /\ tKids[0] = <<1, 2, 3>>
    /\ tKind[1] = "t1" /\ tKind[2] = "more" /\ tKind[3] = "t1"
    /\ tKids[1] = <<4>> /\ tKind[4] = "more"
    /\ Len(comments) = 2
    /\ comments[1].id = 1 /\ comments[2].id = 3

\* C12: when the client id, the client secret or the user-agent string is
\* missing or empty in the environment, configuration loading fails with the
\* schema error and the client is never built.
MissingOrEmpty(v) == v = Undefined \/ v = ""

C12_RequiredSettings ==
    (startup # "start" /\ (\/ MissingOrEmpty(env.REDDIT_CLIENT_ID)
                           \/ MissingOrEmpty(env.REDDIT_CLIENT_SECRET)
                           \/ MissingOrEmpty(env.REDDIT_USER_AGENT)))
        => (startError = "ZodError" /\ ~clientBuilt /\ startup \in {"caught", "exited"})

\* C13: a call of a tool that does not exist ends with MethodNotFound, a call
\* whose arguments fail the schema of the tool ends with InvalidParams, and
\* a call whose client method throws ends with InternalError.
C13_ErrorCodes ==
    hpc = "done" =>
        /\ request.name \notin ToolNames =>
              reply = [kind |-> "McpError", code |-> "MethodNotFound"]
        /\ (request.name \in ToolNames /\ ~SchemaOk(request.name, request.arguments)) =>
              reply = [kind |-> "McpError", code |-> "InvalidParams"]
        /\ (request.name \in ToolNames /\ SchemaOk(request.name, request.arguments)
              /\ reply.kind = "McpError") =>
              reply.code = "InternalError"

\* C14: a search_posts call with valid arguments asks the API with limit=n
\* for the requested limit n (25 when none is given), and with a parameter t
\* exactly when a time window was given, then with that window as its value.
LimitText(l) ==
    CASE l = <<>> -> "25"
      [] l = <<1>> -> "1"
      [] l = <<50>> -> "50"
      [] l = <<100>> -> "100"
      [] OTHER -> "?"

C14_SearchArguments ==
    (request.name = "search_posts" /\ hpc \in {"calling", "done"} /\ call # NoCall) =>
        /\ call.q = request.arguments.key
        /\ call.limit = LimitText(request.arguments.limit)
        /\ (call.t # Undefined) <=> (request.arguments.time # Undefined)
        /\ request.arguments.time # Undefined => call.t = request.arguments.time

\* C15: for a raw post with a thumbnail value, the mapped post has a
\* thumbnail exactly when the raw value is neither "self" nor "default", and
\* then it is the raw value; for "self" and "default" the field is absent and
\* not the empty string.
C15_Thumbnail ==
    (postMapped /\ rawPost.thumbnail # Undefined) =>
        /\ (post.thumbnail # Undefined) <=> (rawPost.thumbnail \notin {"self", "default"})
        /\ post.thumbnail # Undefined => post.thumbnail = rawPost.thumbnail
        /\ rawPost.thumbnail \in {"self", "default"} =>
              (post.thumbnail = Undefined /\ post.thumbnail # "")

C15_Witness ==
    /\ postMapped
    /\ rawPost.thumbnail = "default"
    /\ post.thumbnail = Undefined
    /\ post.id = rawPost.id

\* C16: the configuration never changes and every token request of a client
\* carries the grant type of all its earlier ones: after a rejected exchange
\* the next request uses the rejected grant again, never a grant of lower
\* priority.
C16_NoFallback ==
    [][/\ config' = config
       /\ Cardinality(grantLog'.used) <= 1
       /\ \A q \in Queries :
             tokenReqs'[q] > tokenReqs[q] =>
                 /\ grantLog.used # {} => grantSent'[q] \in grantLog.used
                 /\ grantLog.rejected # {} => grantSent'[q] \in grantLog.rejected
                 /\ (config.refreshToken # "" \/ (config.username # "" /\ config.password # ""))
                       => grantSent'[q] # "client_credentials"]_vars

C16_Witness ==
    /\ grantLog.retried
    /\ grantLog.rejected = {"refresh_token"}
    /\ config.username # "" /\ config.password # ""
    /\ \E q \in Queries : pc[q] = "auth_wait" /\ grantSent[q] = "refresh_token"
====
